---- MODULE Spec2Model ----
(***************************************************************************)
(* Query unnesting (src/Unnesting/query_unnesting): the plan tree, the     *)
(* QueryTree index, the discovery of dependent joins and the rewrite       *)
(* process_node, as a state machine that runs unnest_query on plans drawn  *)
(* from a bounded universe.                                                *)
(***************************************************************************)
EXTENDS Integers, Sequences, FiniteSets, TLC

\* ------------------------------------------------------------------------
\* Option<T>: None is the empty sequence, Some(x) the one-element sequence.
None == << >>
Some(x) == << x >>
IsSome(o) == Len(o) = 1
IsNone(o) == Len(o) = 0
Unwrap(o) == o[1]

\* HashMap: a function; insert overwrites the entry of the key.
EmptyMap == [x \in {} |-> x]
MapInsert(m, k, v) == [x \in (DOMAIN m) \cup {k} |-> IF x = k THEN v ELSE m[x]]
Range(f) == {f[x] : x \in DOMAIN f}

\* All enumerations of a finite set: the iteration orders of a HashSet.
RECURSIVE Orders(_)
Orders(S) ==
    IF S = {} THEN {<< >>}
    ELSE UNION {{<<x>> \o t : t \in Orders(S \ {x})} : x \in S}

\* ------------------------------------------------------------------------
\* Column and Expr (main.rs)
Column(t, n) == [table |-> t, name |-> n]

ColumnRef(c) == [k |-> "ColumnRef", c |-> c]
Constant(v) == [k |-> "Constant", v |-> v]
Equal(l, r) == [k |-> "Equal", l |-> l, r |-> r]
And(l, r) == [k |-> "And", l |-> l, r |-> r]
GreaterThan(l, r) == [k |-> "GreaterThan", l |-> l, r |-> r]
Count == [k |-> "Count"]
Sum(e) == [k |-> "Sum", e |-> e]

\* ------------------------------------------------------------------------
\* RelNode (main.rs)
Table(id, name, columns) ==
    [kind |-> "Table", id |-> id, name |-> name, columns |-> columns]
Select(id, predicate, input) ==
    [kind |-> "Select", id |-> id, predicate |-> predicate, input |-> input]
Map(id, mappings, input) ==
    [kind |-> "Map", id |-> id, mappings |-> mappings, input |-> input]
GroupBy(id, keys, aggregates, input) ==
    [kind |-> "GroupBy", id |-> id, keys |-> keys, aggregates |-> aggregates,
     input |-> input]
Join(id, left, right, condition, is_dependent, accessing) ==
    [kind |-> "Join", id |-> id, left |-> left, right |-> right,
     condition |-> condition, is_dependent |-> is_dependent,
     accessing |-> accessing]

children(node) ==
    CASE node.kind = "Table" -> << >>
      [] node.kind = "Join" -> << node.left, node.right >>
      [] OTHER -> << node.input >>

RECURSIVE collect_columns_from_expr(_)
collect_columns_from_expr(expr) ==
    CASE expr.k = "ColumnRef" -> {expr.c}
      [] expr.k \in {"Equal", "And", "GreaterThan"} ->
            collect_columns_from_expr(expr.l) \cup collect_columns_from_expr(expr.r)
      [] expr.k = "Sum" -> collect_columns_from_expr(expr.e)
      [] OTHER -> {}

get_accessed_columns(node) ==
    CASE node.kind = "Table" -> {}
      [] node.kind = "Select" -> collect_columns_from_expr(node.predicate)
      [] node.kind = "Map" ->
            UNION {collect_columns_from_expr(node.mappings[c]) : c \in DOMAIN node.mappings}
      [] node.kind = "GroupBy" ->
            Range(node.keys) \cup
            UNION {collect_columns_from_expr(node.aggregates[c]) : c \in DOMAIN node.aggregates}
      [] node.kind = "Join" -> collect_columns_from_expr(node.condition)

\* ------------------------------------------------------------------------
\* Structural helpers over a plan tree.
RECURSIVE Nodes(_)
Nodes(node) ==
    <<node>> \o
    (CASE node.kind = "Table" -> << >>
       [] node.kind = "Join" -> Nodes(node.left) \o Nodes(node.right)
       [] OTHER -> Nodes(node.input))

NodeSet(node) == Range(Nodes(node))
Ids(node) == {n.id : n \in NodeSet(node)}
UniqueIds(node) ==
    LET s == Nodes(node)
    IN \A i, j \in DOMAIN s : i # j => s[i].id # s[j].id

\* ------------------------------------------------------------------------
\* QueryTree (query_tree.rs).  A NodeRef is modelled by its content and by
\* whether it is the root cell: build_maps stores the root cell itself for the
\* root and a fresh cell holding a clone for every other node.
MapInsertAll(m, ks, v) == [x \in (DOMAIN m) \cup ks |-> IF x \in ks THEN v ELSE m[x]]

collect_column_providers(tree, node) ==
    LET cols ==
          CASE node.kind = "Table" ->
                 {Column(node.name, node.columns[i]) : i \in DOMAIN node.columns}
            [] node.kind = "Map" -> DOMAIN node.mappings
            [] node.kind = "GroupBy" -> Range(node.keys) \cup DOMAIN node.aggregates
            [] OTHER -> {}
    IN [tree EXCEPT !.column_providers = MapInsertAll(@, cols, node.id)]

RECURSIVE build_maps(_, _, _, _)
\* build_maps recording every node as its own parent.
build_maps_self_parent(tree, node, parent, is_root) ==
    LET id == node.id
        t1 == [tree EXCEPT !.node_map =
                  MapInsert(@, id, [is_root |-> is_root, node |-> node])]
        t2 == [t1 EXCEPT !.parent_map = MapInsert(@, id, id)]
        t3 == collect_column_providers(t2, node)
        cs == children(node)
    IN CASE Len(cs) = 0 -> t3
         [] Len(cs) = 1 -> build_maps(t3, cs[1], Some(id), FALSE)
         [] OTHER -> build_maps(build_maps(t3, cs[1], Some(id), FALSE),
                                cs[2], Some(id), FALSE)

build_maps(tree, node, parent, is_root) ==
    LET id == node.id
        t1 == [tree EXCEPT !.node_map =
                  MapInsert(@, id, [is_root |-> is_root, node |-> node])]
        t2 == IF IsSome(parent)
              THEN [t1 EXCEPT !.parent_map = MapInsert(@, id, Unwrap(parent))]
              ELSE t1
        t3 == collect_column_providers(t2, node)
        cs == children(node)
    IN CASE Len(cs) = 0 -> t3
         [] Len(cs) = 1 -> build_maps(t3, cs[1], Some(id), FALSE)
         [] OTHER -> build_maps(build_maps(t3, cs[1], Some(id), FALSE),
                                cs[2], Some(id), FALSE)

QueryTree_new(root) ==
    build_maps([root |-> root, node_map |-> EmptyMap,
                column_providers |-> EmptyMap, parent_map |-> EmptyMap],
               root, None, TRUE)

find_node(tree, id) ==
    IF id \in DOMAIN tree.node_map THEN Some(tree.node_map[id].node) ELSE None

RECURSIVE AncestorChain(_, _)
AncestorChain(pm, current) ==
    {current} \cup (IF current \in DOMAIN pm THEN AncestorChain(pm, pm[current]) ELSE {})

RECURSIVE LcaWalk(_, _, _)
LcaWalk(pm, ancestors, current) ==
    IF current \in DOMAIN pm
    THEN IF pm[current] \in ancestors THEN Some(pm[current])
         ELSE LcaWalk(pm, ancestors, pm[current])
    ELSE None

\* find_lca without the test of node2_id itself (line 106).
find_lca_skipping_self(tree, node1_id, node2_id) ==
    LcaWalk(tree.parent_map, AncestorChain(tree.parent_map, node1_id), node2_id)

find_lca(tree, node1_id, node2_id) ==
    LET ancestors == AncestorChain(tree.parent_map, node1_id)
    IN IF node2_id \in ancestors THEN Some(node2_id)
       ELSE LcaWalk(tree.parent_map, ancestors, node2_id)

RECURSIVE DescWalk(_, _, _)
DescWalk(pm, current, ancestor_id) ==
    IF current \in DOMAIN pm
    THEN IF pm[current] = ancestor_id THEN TRUE
         ELSE DescWalk(pm, pm[current], ancestor_id)
    ELSE FALSE

\* is_descendant_of without the test node_id == ancestor_id.
is_descendant_of_strict(tree, node_id, ancestor_id) ==
    DescWalk(tree.parent_map, node_id, ancestor_id)

is_descendant_of(tree, node_id, ancestor_id) ==
    IF node_id = ancestor_id THEN TRUE
    ELSE DescWalk(tree.parent_map, node_id, ancestor_id)

is_in_left_subtree(tree, node_id, join_id) ==
    LET jn == find_node(tree, join_id)
    IN IF IsSome(jn) /\ Unwrap(jn).kind = "Join"
       THEN is_descendant_of(tree, node_id, Unwrap(jn).left.id)
       ELSE FALSE

\* The Vec of (lca_id, node_id) pairs, as the set of its elements:
\* apply_dependencies only inserts them into sets.
identify_dependent_joins(tree) ==
    {<<Unwrap(find_lca(tree, node_id, tree.column_providers[col])), node_id>> :
        <<node_id, col>> \in
          {<<n, c>> \in
              UNION {{<<i, cc>> : cc \in get_accessed_columns(tree.node_map[i].node)}
                       : i \in DOMAIN tree.node_map} :
              /\ c \in DOMAIN tree.column_providers
              /\ tree.column_providers[c] # n
              /\ IsSome(find_lca(tree, n, tree.column_providers[c]))
              /\ is_in_left_subtree(tree, tree.column_providers[c],
                                    Unwrap(find_lca(tree, n, tree.column_providers[c])))}}

\* apply_dependencies without the test of is_dependent (line 187).
apply_dependencies_unguarded(tree, relations) ==
    LET accessing_ids(lca_id) == {r[2] : r \in {q \in relations : q[1] = lca_id}}
        hit(id) == /\ id \in {r[1] : r \in relations}
                   /\ tree.node_map[id].node.kind = "Join"
        upd(n, id) == IF hit(id)
                      THEN [n EXCEPT !.accessing = @ \cup accessing_ids(id)]
                      ELSE n
        rid == {i \in DOMAIN tree.node_map : tree.node_map[i].is_root}
    IN [tree EXCEPT
          !.node_map = [i \in DOMAIN tree.node_map |->
                          [tree.node_map[i] EXCEPT !.node = upd(@, i)]],
          !.root = IF rid = {} THEN @
                   ELSE upd(@, CHOOSE i \in rid : TRUE)]

apply_dependencies(tree, relations) ==
    LET accessing_ids(lca_id) == {r[2] : r \in {q \in relations : q[1] = lca_id}}
        hit(id) == /\ id \in {r[1] : r \in relations}
                   /\ tree.node_map[id].node.kind = "Join"
                   /\ tree.node_map[id].node.is_dependent
        upd(n, id) == IF hit(id)
                      THEN [n EXCEPT !.accessing = @ \cup accessing_ids(id)]
                      ELSE n
        rid == {i \in DOMAIN tree.node_map : tree.node_map[i].is_root}
    IN [tree EXCEPT
          !.node_map = [i \in DOMAIN tree.node_map |->
                          [tree.node_map[i] EXCEPT !.node = upd(@, i)]],
          !.root = IF rid = {} THEN @
                   ELSE upd(@, CHOOSE i \in rid : TRUE)]

\* ------------------------------------------------------------------------
\* UnnestingInfo and the expression helpers (unnesting.rs)
UnnestingInfo_new(outer_refs, domain) ==
    [outer_refs |-> outer_refs, domain |-> domain, cclasses |-> EmptyMap,
     repr |-> EmptyMap, parent |-> None]

with_parent(self, parent) == [self EXCEPT !.parent = Some(parent)]

\* cclasses.entry(col).or_insert_with(HashSet::new).extend(cols)
ClassExtend(cclasses, col, cols) ==
    MapInsert(cclasses, col,
              (IF col \in DOMAIN cclasses THEN cclasses[col] ELSE {}) \cup cols)

merge_cclasses(into, from) ==
    [c \in (DOMAIN into) \cup (DOMAIN from) |->
        (IF c \in DOMAIN into THEN into[c] ELSE {}) \cup
        (IF c \in DOMAIN from THEN from[c] ELSE {})]

merge_equivalence_classes(self, other) ==
    [self EXCEPT !.cclasses = merge_cclasses(@, other.cclasses)]

\* The candidates the inner loop can stop at for col: the first member of the
\* class, in the HashSet's iteration order, that is available.
ReplacementCandidates(self, col, available_columns) ==
    IF col \in DOMAIN self.cclasses
    THEN self.cclasses[col] \cap available_columns
    ELSE {}

\* create_replacement_mappings without the skip of resolved columns (41-44).
create_replacement_mappings_overwriting(self, available_columns) ==
    LET todo == {c \in self.outer_refs :
                    ReplacementCandidates(self, c, available_columns) # {}}
        picks == {g \in [todo -> available_columns] :
                    \A c \in todo : g[c] \in ReplacementCandidates(self, c, available_columns)}
    IN {[self EXCEPT !.repr = [x \in (DOMAIN self.repr) \cup todo |->
                                  IF x \in todo THEN g[x] ELSE self.repr[x]]]
          : g \in picks}

\* Every outcome of create_replacement_mappings, one per choice of iteration
\* order of the equivalence classes.
create_replacement_mappings(self, available_columns) ==
    LET todo == {c \in self.outer_refs \ DOMAIN self.repr :
                    ReplacementCandidates(self, c, available_columns) # {}}
        picks == {g \in [todo -> available_columns] :
                    \A c \in todo : g[c] \in ReplacementCandidates(self, c, available_columns)}
    IN {[self EXCEPT !.repr = [x \in (DOMAIN self.repr) \cup todo |->
                                  IF x \in todo THEN g[x] ELSE self.repr[x]]]
          : g \in picks}

RECURSIVE get_expr_columns(_)
get_expr_columns(expr) ==
    CASE expr.k = "ColumnRef" -> {expr.c}
      [] expr.k \in {"Equal", "And", "GreaterThan"} ->
            get_expr_columns(expr.l) \cup get_expr_columns(expr.r)
      [] expr.k = "Sum" -> get_expr_columns(expr.e)
      [] OTHER -> {}

RECURSIVE add_equivalences_from_expr(_, _)
\* add_equivalences_from_expr recording only right in the class of left.
add_equivalences_one_way(expr, cclasses) ==
    CASE expr.k = "Equal" ->
            IF expr.l.k = "ColumnRef" /\ expr.r.k = "ColumnRef"
            THEN ClassExtend(cclasses, expr.l.c, {expr.r.c})
            ELSE cclasses
      [] expr.k = "And" ->
            add_equivalences_from_expr(expr.r,
                add_equivalences_from_expr(expr.l, cclasses))
      [] OTHER -> cclasses

add_equivalences_from_expr(expr, cclasses) ==
    CASE expr.k = "Equal" ->
            IF expr.l.k = "ColumnRef" /\ expr.r.k = "ColumnRef"
            THEN ClassExtend(ClassExtend(cclasses, expr.l.c, {expr.r.c}),
                             expr.r.c, {expr.l.c})
            ELSE cclasses
      [] expr.k = "And" ->
            add_equivalences_from_expr(expr.r,
                add_equivalences_from_expr(expr.l, cclasses))
      [] OTHER -> cclasses

RECURSIVE rewrite_expr(_, _)

\* rewrite_expr with the operands of GreaterThan exchanged.
rewrite_expr_swapped(expr, repr) ==
    CASE expr.k = "ColumnRef" ->
            IF expr.c \in DOMAIN repr THEN ColumnRef(repr[expr.c]) ELSE expr
      [] expr.k = "Equal" -> Equal(rewrite_expr(expr.l, repr), rewrite_expr(expr.r, repr))
      [] expr.k = "And" -> And(rewrite_expr(expr.l, repr), rewrite_expr(expr.r, repr))
      [] expr.k = "GreaterThan" ->
            GreaterThan(rewrite_expr(expr.r, repr), rewrite_expr(expr.l, repr))
      [] expr.k = "Sum" -> Sum(rewrite_expr(expr.e, repr))
      [] OTHER -> expr

rewrite_expr(expr, repr) ==
    CASE expr.k = "ColumnRef" ->
            IF expr.c \in DOMAIN repr THEN ColumnRef(repr[expr.c]) ELSE expr
      [] expr.k = "Equal" -> Equal(rewrite_expr(expr.l, repr), rewrite_expr(expr.r, repr))
      [] expr.k = "And" -> And(rewrite_expr(expr.l, repr), rewrite_expr(expr.r, repr))
      [] expr.k = "GreaterThan" ->
            GreaterThan(rewrite_expr(expr.l, repr), rewrite_expr(expr.r, repr))
      [] expr.k = "Sum" -> Sum(rewrite_expr(expr.e, repr))
      [] OTHER -> expr

RECURSIVE get_node_produced_columns(_)
get_node_produced_columns(node) ==
    CASE node.kind = "Table" ->
            {Column(node.name, node.columns[i]) : i \in DOMAIN node.columns}
      [] node.kind = "Map" ->
            get_node_produced_columns(node.input) \cup DOMAIN node.mappings
      [] node.kind = "Select" -> get_node_produced_columns(node.input)
      [] node.kind = "GroupBy" -> Range(node.keys) \cup DOMAIN node.aggregates
      [] node.kind = "Join" ->
            get_node_produced_columns(node.left) \cup get_node_produced_columns(node.right)

RECURSIVE get_node_free_variables(_)
get_node_free_variables(node) ==
    CASE node.kind = "Select" ->
            (get_expr_columns(node.predicate) \ get_node_produced_columns(node.input))
            \cup get_node_free_variables(node.input)
      [] node.kind = "Map" ->
            (UNION {get_expr_columns(node.mappings[c]) : c \in DOMAIN node.mappings}
               \ get_node_produced_columns(node.input))
            \cup get_node_free_variables(node.input)
      [] node.kind = "GroupBy" ->
            (UNION {get_expr_columns(node.aggregates[c]) : c \in DOMAIN node.aggregates}
               \ get_node_produced_columns(node.input))
            \cup get_node_free_variables(node.input)
      [] node.kind = "Join" ->
            (get_expr_columns(node.condition)
               \ (get_node_produced_columns(node.left)
                    \cup get_node_produced_columns(node.right)))
            \cup get_node_free_variables(node.left)
            \cup get_node_free_variables(node.right)
      [] OTHER -> {}

find_correlation(left, right) ==
    << get_node_produced_columns(left), get_node_free_variables(right) >>

\* static mut NEXT_ID: the counter is passed in and the incremented value is
\* both the new counter and the id returned.
get_next_id(next_id) == next_id + 1

\* create_domain_node re-projecting every column of left.
create_domain_node_all(left, outer_refs, next_id) ==
    Map(get_next_id(next_id),
        [c \in get_node_produced_columns(left) |-> ColumnRef(c)], left)

create_domain_node(left, outer_refs, next_id) ==
    Map(get_next_id(next_id), [c \in outer_refs |-> ColumnRef(c)], left)

RECURSIVE DomainJoinFold(_, _, _)
DomainJoinFold(condition, order, repr) ==
    IF order = << >> THEN condition
    ELSE DomainJoinFold(
           IF Head(order) \in DOMAIN repr
           THEN And(condition, Equal(ColumnRef(Head(order)), ColumnRef(repr[Head(order)])))
           ELSE condition,
           Tail(order), repr)

\* One condition per iteration order of outer_refs.
create_domain_join_condition(outer_refs, repr) ==
    {DomainJoinFold(Constant("true"), order, repr) : order \in Orders(outer_refs)}

\* merge_unnesting_info with the entries of right replacing those of left.
merge_unnesting_info_right_wins(left, right) ==
    LET result == IF left.outer_refs # {} THEN left ELSE right
    IN IF left.outer_refs # {} /\ right.outer_refs # {}
       THEN [result EXCEPT
               !.cclasses = merge_cclasses(@, right.cclasses),
               !.repr = [c \in (DOMAIN result.repr) \cup (DOMAIN right.repr) |->
                           IF c \in DOMAIN right.repr THEN right.repr[c]
                           ELSE result.repr[c]]]
       ELSE result

merge_unnesting_info(left, right) ==
    LET result == IF left.outer_refs # {} THEN left ELSE right
    IN IF left.outer_refs # {} /\ right.outer_refs # {}
       THEN [result EXCEPT
               !.cclasses = merge_cclasses(@, right.cclasses),
               !.repr = [c \in (DOMAIN result.repr) \cup (DOMAIN right.repr) |->
                           IF c \in DOMAIN result.repr THEN result.repr[c]
                           ELSE right.repr[c]]]
       ELSE result

\* decorrelate_node returning the input of a Select in place of the Select.
decorrelate_node_unwrapped(node, info) ==
    IF node.kind = "Select" THEN node.input ELSE node

decorrelate_node(node, info) == node

RECURSIVE find_node_by_id_mut(_, _)
find_node_by_id_mut(node, id) ==
    IF node.id = id THEN Some(node)
    ELSE CASE node.kind = "Table" -> None
           [] node.kind = "Join" ->
                 LET l == find_node_by_id_mut(node.left, id)
                 IN IF IsSome(l) THEN l ELSE find_node_by_id_mut(node.right, id)
           [] OTHER -> find_node_by_id_mut(node.input, id)

\* The loop of try_simple_unnesting over one iteration order of accessing:
\* st = [all_predicates, predicates]; a break leaves st unchanged.
RECURSIVE SimpleLoop(_, _, _)
SimpleLoop(node, order, st) ==
    IF order = << >> \/ ~st.all_predicates THEN st
    ELSE LET acc == find_node_by_id_mut(node, Head(order))
         IN SimpleLoop(node, Tail(order),
              IF IsNone(acc) THEN st
              ELSE IF Unwrap(acc).kind = "Select"
                   THEN [st EXCEPT !.predicates = Append(@, Unwrap(acc).predicate)]
                   ELSE [st EXCEPT !.all_predicates = FALSE])

RECURSIVE AndFold(_, _)
AndFold(condition, predicates) ==
    IF predicates = << >> THEN condition
    ELSE AndFold(And(condition, Head(predicates)), Tail(predicates))

\* Every outcome [ok, condition] of try_simple_unnesting, one per iteration
\* order of accessing.
try_simple_unnesting(node, accessing, condition) ==
    {LET st == SimpleLoop(node, order, [all_predicates |-> TRUE, predicates |-> << >>])
     IN IF st.all_predicates /\ st.predicates # << >>
        THEN [ok |-> TRUE, condition |-> AndFold(condition, st.predicates)]
        ELSE [ok |-> FALSE, condition |-> condition]
       : order \in Orders(accessing)}

\* ------------------------------------------------------------------------
\* process_node (unnesting.rs).  The operator yields every outcome
\* [node, info, avail, next_id, log] the call can have: node is the node as
\* left in place, info the UnnestingInfo returned, avail the available_columns
\* left to the caller, next_id the NEXT_ID counter.  log is the record of the
\* visits made, one event per node in the order the visits return.
Event(op, path, parent_info, node0, node1, info0, info1, avail0, availR, avail1) ==
    [op |-> op, path |-> path, id |-> node0.id, scoped |-> IsSome(parent_info),
     node0 |-> node0, node1 |-> node1, info0 |-> info0, info1 |-> info1,
     avail0 |-> avail0, availR |-> availR, avail1 |-> avail1]

Outcome(node, info, avail, next_id, log) ==
    [node |-> node, info |-> info, avail |-> avail, next_id |-> next_id, log |-> log]

InfoOrNew(parent_info) ==
    IF IsSome(parent_info) THEN Unwrap(parent_info) ELSE UnnestingInfo_new({}, None)

RewriteKeys(keys, repr) ==
    [i \in DOMAIN keys |-> IF keys[i] \in DOMAIN repr THEN repr[keys[i]] ELSE keys[i]]

\* for col in &info.outer_refs { if let Some(new_col) = repr.get(col) {
\*   if !keys.contains(new_col) { keys.push(new_col) } } }, over one order.
RECURSIVE PushKeys(_, _, _)

\* The loop left out: no substitute is added to the keys.
PushKeysOmitted(keys, order, repr) == keys

PushKeys(keys, order, repr) ==
    IF order = << >> THEN keys
    ELSE PushKeys(
           IF Head(order) \in DOMAIN repr /\ repr[Head(order)] \notin Range(keys)
           THEN Append(keys, repr[Head(order)])
           ELSE keys,
           Tail(order), repr)

RewriteMappings(mappings, repr) ==
    [c \in DOMAIN mappings |-> rewrite_expr(mappings[c], repr)]

RECURSIVE process_node(_, _, _, _)

\* Lines 146-155, and 78-85 when simple is TRUE (the condition was already
\* replaced by try_simple_unnesting and is not rewritten again).
JoinBothSides(node, parent_info, avail, next_id, simple, condition) ==
    UNION {{
        LET merged_info == merge_unnesting_info(lo.info, ro.info)
            avail1 == ro.avail \cup lo.avail
            node1 == IF simple
                     THEN Join(node.id, lo.node, ro.node, condition, FALSE, {})
                     ELSE Join(node.id, lo.node, ro.node,
                               rewrite_expr(condition, merged_info.repr),
                               node.is_dependent, node.accessing)
        IN Outcome(node1, merged_info, avail1, ro.next_id,
                   lo.log \o ro.log \o
                   << Event("Join", IF simple THEN "simple" ELSE "independent",
                            parent_info, node, node1, merged_info, merged_info,
                            avail, avail1, avail1) >>)
        : ro \in process_node(node.right, parent_info, avail, lo.next_id)}
      : lo \in process_node(node.left, parent_info, avail, next_id)}

\* Lines 88-144.
JoinGeneral(node, parent_info, avail, next_id) ==
    LET los == IF IsSome(parent_info)
               THEN process_node(node.left, parent_info, avail, next_id)
               ELSE {Outcome(node.left, UnnestingInfo_new({}, None), avail,
                             next_id, << >>)}
    IN UNION {
         LET left1 == lo.node
             avail_l == avail \cup lo.avail
             corr == find_correlation(left1, node.right)
             outer_refs == corr[1] \cap corr[2]
             domain == IF outer_refs # {}
                       THEN Some(create_domain_node(left1, outer_refs, lo.next_id))
                       ELSE None
             next_id1 == IF outer_refs # {} THEN get_next_id(lo.next_id)
                         ELSE lo.next_id
             infoA == UnnestingInfo_new(outer_refs, domain)
             infoB == IF IsSome(parent_info)
                      THEN with_parent(infoA, Unwrap(parent_info)) ELSE infoA
             info == [infoB EXCEPT
                        !.cclasses = add_equivalences_from_expr(node.condition, @)]
         IN UNION {UNION {{
              LET condition1 == rewrite_expr(node.condition, info1.repr)
                  right1 == decorrelate_node(ro.node, info1)
                  right2 == IF IsSome(info1.domain)
                            THEN Join(get_next_id(ro.next_id), Unwrap(info1.domain),
                                      right1, djc, FALSE, {})
                            ELSE right1
                  next_id2 == IF IsSome(info1.domain) THEN get_next_id(ro.next_id)
                              ELSE ro.next_id
                  avail1 == ro.avail \cup
                            {info1.repr[c] : c \in outer_refs \cap DOMAIN info1.repr}
                  node1 == Join(node.id, left1, right2, condition1, FALSE, {})
              IN Outcome(node1, info1, avail1, next_id2,
                         lo.log \o ro.log \o
                         << Event("Join", "general", parent_info, node, node1,
                                  info, info1, avail, ro.avail, avail1) >>)
              : djc \in create_domain_join_condition(info1.outer_refs, info1.repr)}
              : info1 \in create_replacement_mappings(info, ro.avail)}
              : ro \in process_node(node.right, Some(info), avail_l, next_id1)}
         : lo \in los}

ProcessJoin(node, parent_info, avail, next_id) ==
    IF node.is_dependent /\ node.accessing # {}
    THEN UNION {
           IF sr.ok
           THEN JoinBothSides(node, parent_info, avail, next_id, TRUE, sr.condition)
           ELSE JoinGeneral(node, parent_info, avail, next_id)
           : sr \in try_simple_unnesting(node.right, node.accessing, node.condition)}
    ELSE JoinBothSides(node, parent_info, avail, next_id, FALSE, node.condition)

ProcessSelect(node, parent_info, avail, next_id) ==
    LET infoA == InfoOrNew(parent_info)
        info == [infoA EXCEPT
                   !.cclasses = add_equivalences_from_expr(node.predicate, @)]
    IN UNION {{
         LET node1 == Select(node.id, rewrite_expr(node.predicate, info1.repr), io.node)
         IN Outcome(node1, info1, io.avail, io.next_id,
                    io.log \o << Event("Select", "", parent_info, node, node1,
                                       merge_equivalence_classes(info, io.info),
                                       info1, avail, io.avail, io.avail) >>)
         : info1 \in create_replacement_mappings(
                        merge_equivalence_classes(info, io.info), io.avail)}
         : io \in process_node(node.input, Some(info), avail, next_id)}

ProcessMap(node, parent_info, avail, next_id) ==
    UNION {{
      LET node1 == Map(node.id, RewriteMappings(node.mappings, info1.repr), io.node)
          avail1 == io.avail \cup DOMAIN node.mappings
      IN Outcome(node1, info1, avail1, io.next_id,
                 io.log \o << Event("Map", "", parent_info, node, node1,
                                    IF IsSome(parent_info) THEN Unwrap(parent_info)
                                    ELSE io.info,
                                    info1, avail, io.avail, avail1) >>)
      : info1 \in create_replacement_mappings(
                     IF IsSome(parent_info) THEN Unwrap(parent_info) ELSE io.info,
                     io.avail)}
      : io \in process_node(node.input, parent_info, avail, next_id)}

ProcessGroupBy(node, parent_info, avail, next_id) ==
    LET info == InfoOrNew(parent_info)
    IN UNION {UNION {{
         LET aggregates1 == RewriteMappings(node.aggregates, info1.repr)
             node1 == GroupBy(node.id, keys1, aggregates1, io.node)
             avail1 == Range(keys1) \cup DOMAIN aggregates1
         IN Outcome(node1, info1, avail1, io.next_id,
                    io.log \o << Event("GroupBy", "", parent_info, node, node1,
                                       merge_equivalence_classes(info, io.info),
                                       info1, avail, io.avail, avail1) >>)
         : keys1 \in {PushKeys(RewriteKeys(node.keys, info1.repr), order, info1.repr)
                        : order \in Orders(info1.outer_refs)}}
         : info1 \in create_replacement_mappings(
                        merge_equivalence_classes(info, io.info), io.avail)}
         : io \in process_node(node.input, Some(info), avail, next_id)}

ProcessTable(node, parent_info, avail, next_id) ==
    LET info == InfoOrNew(parent_info)
        avail1 == avail \cup get_node_produced_columns(node)
    IN {Outcome(node, info, avail1, next_id,
                << Event("Table", "", parent_info, node, node, info, info,
                         avail, avail1, avail1) >>)}

process_node(node, parent_info, available_columns, next_id) ==
    CASE node.kind = "Join" -> ProcessJoin(node, parent_info, available_columns, next_id)
      [] node.kind = "Select" -> ProcessSelect(node, parent_info, available_columns, next_id)
      [] node.kind = "Map" -> ProcessMap(node, parent_info, available_columns, next_id)
      [] node.kind = "GroupBy" -> ProcessGroupBy(node, parent_info, available_columns, next_id)
      [] node.kind = "Table" -> ProcessTable(node, parent_info, available_columns, next_id)

\* ------------------------------------------------------------------------
\* The bounded universe of input plans.
MaxUnary == 2        \* Select/Map/GroupBy nodes stacked over the right input
MaxRuns == 2         \* invocations of unnest_query in one process
NEXT_ID_INIT == 1000 \* static mut NEXT_ID
HighBase == NEXT_ID_INIT \* first id of the plans numbered next to NEXT_ID

RX == Column("R", "X")
RY == Column("R", "Y")
SY == Column("S", "Y")
SZ == Column("S", "Z")
TY == Column("T", "Y")
GA == Column("G", "agg")
MV == Column("M", "v")

TableR == Table(0, "R", << "X", "Y" >>)
TableS == Table(0, "S", << "Y", "Z" >>)
TableT == Table(0, "T", << "Y" >>)

Predicates ==
    { Equal(ColumnRef(RY), ColumnRef(SY)),
      GreaterThan(ColumnRef(SZ), Constant("0")),
      And(Equal(ColumnRef(RY), ColumnRef(RX)), Equal(ColumnRef(RX), ColumnRef(SZ))),
      And(Equal(ColumnRef(RY), ColumnRef(SY)), Equal(ColumnRef(RY), ColumnRef(SZ))),
      GreaterThan(ColumnRef(RX), ColumnRef(SZ)) }

Conditions ==
    { Constant("true"),
      Equal(ColumnRef(RY), ColumnRef(SY)),
      GreaterThan(ColumnRef(RX), ColumnRef(SZ)) }

\* A unary operator to put over an input, before the ids are assigned.
UnaryOps ==
    {[kind |-> "Select", predicate |-> p] : p \in Predicates}
    \cup {[kind |-> "GroupBy", keys |-> ks, aggregates |-> ag] :
            <<ks, ag>> \in { << <<SZ>>, [c \in {GA} |-> Count] >>,
                             << <<SZ>>, [c \in {GA} |-> Sum(ColumnRef(RX))] >>,
                             << <<SY>>, [c \in {GA} |-> Sum(ColumnRef(RX))] >>,
                             << <<RY, SY>>, [c \in {GA} |-> Count] >> }}
    \cup {[kind |-> "Map", mappings |-> [c \in {MV} |-> ColumnRef(col)]] :
            col \in {SY, RY}}

Over(op, input) ==
    CASE op.kind = "Select" -> Select(0, op.predicate, input)
      [] op.kind = "GroupBy" -> GroupBy(0, op.keys, op.aggregates, input)
      [] op.kind = "Map" -> Map(0, op.mappings, input)

RECURSIVE Chains(_, _)
Chains(base, n) ==
    IF n = 0 THEN {base}
    ELSE LET below == Chains(base, n - 1)
         IN below \cup {Over(op, c) : op \in UnaryOps, c \in below}

RECURSIVE Size(_)
Size(node) ==
    CASE node.kind = "Table" -> 1
      [] node.kind = "Join" -> 1 + Size(node.left) + Size(node.right)
      [] OTHER -> 1 + Size(node.input)

\* Ids in preorder, from first.
RECURSIVE Number(_, _)
Number(node, first) ==
    CASE node.kind = "Table" -> [node EXCEPT !.id = first]
      [] node.kind = "Join" ->
            [node EXCEPT !.id = first,
                         !.left = Number(node.left, first + 1),
                         !.right = Number(node.right, first + 1 + Size(node.left))]
      [] OTHER -> [node EXCEPT !.id = first, !.input = Number(node.input, first + 1)]

\* The last node in preorder (a Table) takes the id `id`.
RECURSIVE SetLastId(_, _)
SetLastId(node, id) ==
    CASE node.kind = "Table" -> [node EXCEPT !.id = id]
      [] node.kind = "Join" -> [node EXCEPT !.right = SetLastId(node.right, id)]
      [] OTHER -> [node EXCEPT !.input = SetLastId(node.input, id)]

RECURSIVE FirstTableId(_)
FirstTableId(node) ==
    CASE node.kind = "Table" -> node.id
      [] node.kind = "Join" -> FirstTableId(node.left)
      [] OTHER -> FirstTableId(node.input)

\* R joined with a chain over S.
FlatShapes(n) ==
    {Join(0, TableR, r, c, d, {}) :
        r \in Chains(TableS, n), c \in Conditions, d \in BOOLEAN}

\* A join under a Select.
SelectOverJoin ==
    {Select(0, GreaterThan(ColumnRef(RX), Constant("0")),
            Join(0, TableR, r, c, d, {})) :
        r \in Chains(TableS, 1), c \in Conditions, d \in BOOLEAN}

\* A join nested in the left input, in the right input, or under a Select.
NestedShapes ==
    {Join(0, Join(0, TableR,
                  Select(0, Equal(ColumnRef(TY), ColumnRef(RY)), TableT),
                  Constant("true"), d1, {}),
          r, c, d, {}) :
        r \in Chains(TableS, 1), c \in Conditions, d \in BOOLEAN, d1 \in BOOLEAN}
    \cup
    {Join(0, TableR, r, c, d, {}) :
        r \in Chains(Join(0, TableS,
                          Select(0, Equal(ColumnRef(TY), ColumnRef(SY)), TableT),
                          Constant("true"), TRUE, {}), 1),
        c \in Conditions, d \in BOOLEAN}
    \cup SelectOverJoin

\* Ids from 1; ids from NEXT_ID_INIT; the last Table under the id of the first;
\* the accessing set of the join (at the root, under a Select) already naming
\* its left Table.
Plans ==
    {Number(p, 1) : p \in FlatShapes(MaxUnary) \cup NestedShapes}
    \cup {Number(p, HighBase) : p \in FlatShapes(1)}
    \cup {LET q == Number(p, 1) IN SetLastId(q, FirstTableId(q)) : p \in FlatShapes(1)}
    \cup {LET q == Number(p, 1) IN [q EXCEPT !.accessing = {FirstTableId(q)}]
            : p \in FlatShapes(1)}
    \cup {LET q == Number(p, 1) IN [q EXCEPT !.input.accessing = {FirstTableId(q)}]
            : p \in SelectOverJoin}

\* ------------------------------------------------------------------------
\* State.  plan .. prev_out: one caller running unnest_query (main.rs);
\* NEXT_ID: the static counter of get_next_id; t_pc, t_reg, t_ret: threads
\* inside get_next_id; ctx, last: an UnnestingInfo and the last call made on it;
\* cp, net, dispatched: run_cp (bauplan/dag_faas), the request or response in
\* flight, and the requests sent so far.
VARIABLES plan, pc, tree, relations, root_node, ret_info, log, NEXT_ID, runs,
          prev_out, t_pc, t_reg, t_ret, ctx, last, cp, net, dispatched
vars == << plan, pc, tree, relations, root_node, ret_info, log, NEXT_ID, runs,
           prev_out, t_pc, t_reg, t_ret, ctx, last, cp, net, dispatched >>
threadvars == << t_pc, t_reg, t_ret >>
ctxvars == << ctx, last >>
cpvars == << cp, net, dispatched >>

Threads == {"t1", "t2"}
MaxCalls == 2        \* calls of get_next_id per thread (one general rewrite: 2)

NoTree(root) ==
    [root |-> root, node_map |-> EmptyMap, column_providers |-> EmptyMap,
     parent_map |-> EmptyMap]

Call(op, base, left, right, avail, result) ==
    [op |-> op, base |-> base, left |-> left, right |-> right, avail |-> avail,
     result |-> result]

\* No thread is inside get_next_id.
ThreadsIdle ==
    /\ t_pc = [t \in Threads |-> "idle"]
    /\ t_reg = [t \in Threads |-> NEXT_ID_INIT]
    /\ t_ret = [t \in Threads |-> << >>]

\* A context as UnnestingInfo::new leaves it, no call made on it yet.
CtxFresh(outer_refs, domain) ==
    /\ ctx = UnnestingInfo_new(outer_refs, domain)
    /\ last = Call("new", ctx, ctx, ctx, {}, ctx)

\* run_cp not called: no worker address, nothing in flight.
CpState(worker_addrs) ==
    [pc |-> "init", i |-> 0, topo |-> << >>, worker_addrs |-> worker_addrs,
     node_results |-> EmptyMap]

CpIdle ==
    /\ cp = CpState(<< >>)
    /\ net = None
    /\ dispatched = << >>

\* unnest_query not yet called on p.
CallerIdle(p) ==
    /\ plan = p
    /\ pc = "start"
    /\ tree = NoTree(p)
    /\ relations = {}
    /\ root_node = None
    /\ ret_info = None
    /\ log = << >>
    /\ runs = 1
    /\ prev_out = None

\* ------------------------------------------------------------------------
\* unnest_query (main.rs) as a state machine, one action per statement.
Init ==
    /\ \E p \in Plans : CallerIdle(p)
    /\ NEXT_ID = NEXT_ID_INIT
    /\ ThreadsIdle
    /\ CtxFresh({}, None)
    /\ CpIdle

\* let tree = QueryTree::new(query);
New ==
    /\ pc = "start"
    /\ tree' = QueryTree_new(plan)
    /\ pc' = "indexed"
    /\ UNCHANGED << plan, relations, root_node, ret_info, log, NEXT_ID, runs,
                    prev_out, threadvars, ctxvars, cpvars >>

\* let relations = tree.identify_dependent_joins();
IdentifyDependentJoins ==
    /\ pc = "indexed"
    /\ relations' = identify_dependent_joins(tree)
    /\ pc' = "identified"
    /\ UNCHANGED << plan, tree, root_node, ret_info, log, NEXT_ID, runs,
                    prev_out, threadvars, ctxvars, cpvars >>

\* tree.apply_dependencies(&relations);
ApplyDependencies ==
    /\ pc = "identified"
    /\ tree' = apply_dependencies(tree, relations)
    /\ pc' = "applied"
    /\ UNCHANGED << plan, relations, root_node, ret_info, log, NEXT_ID, runs,
                    prev_out, threadvars, ctxvars, cpvars >>

\* let mut root_node = tree.root.borrow().clone();
\* process_node(&mut root_node, &tree, None, &mut available_columns); root_node
ProcessNode ==
    /\ pc = "applied"
    /\ \E o \in process_node(tree.root, None, {}, NEXT_ID) :
          /\ root_node' = Some(o.node)
          /\ ret_info' = Some(o.info)
          /\ log' = o.log
          /\ NEXT_ID' = o.next_id
    /\ pc' = "done"
    /\ UNCHANGED << plan, tree, relations, runs, prev_out, threadvars, ctxvars, cpvars >>

\* The caller keeps the tree returned and invokes unnest_query again, on an
\* equal plan; NEXT_ID is static and keeps its value.
Again ==
    /\ pc = "done"
    /\ runs < MaxRuns
    /\ runs' = runs + 1
    /\ prev_out' = root_node
    /\ pc' = "start"
    /\ tree' = NoTree(plan)
    /\ relations' = {}
    /\ root_node' = None
    /\ ret_info' = None
    /\ log' = << >>
    /\ UNCHANGED << plan, NEXT_ID, threadvars, ctxvars, cpvars >>

Next ==
    \/ New
    \/ IdentifyDependentJoins
    \/ ApplyDependencies
    \/ ProcessNode
    \/ Again

Spec == Init /\ [][Next]_vars

\* Plans numbered from 1, and plans with the last Table under the id of the
\* first.
MaxLiveUnary == 1    \* unary nodes over the right input in LivePlans
LivePlans ==
    {Number(p, 1) : p \in FlatShapes(MaxLiveUnary) \cup NestedShapes}
    \cup {LET q == Number(p, 1) IN SetLastId(q, FirstTableId(q)) : p \in FlatShapes(1)}

InitLive ==
    /\ \E p \in LivePlans : CallerIdle(p)
    /\ NEXT_ID = NEXT_ID_INIT
    /\ ThreadsIdle
    /\ CtxFresh({}, None)
    /\ CpIdle

\* unnest_query is straight-line code: each of its statements is executed
\* once its predecessor has returned.  The caller need not call again.
SpecLive ==
    /\ InitLive
    /\ [][Next]_vars
    /\ WF_vars(New)
    /\ WF_vars(IdentifyDependentJoins)
    /\ WF_vars(ApplyDependencies)
    /\ WF_vars(ProcessNode)

\* ------------------------------------------------------------------------
\* get_next_id called from two threads.  NEXT_ID += 1 on a static mut is a
\* plain load and a plain store; the value returned is the one just stored or
\* a second load of NEXT_ID.
IdlePlan == Number(TableR, 1)
callervars == << plan, pc, tree, relations, root_node, ret_info, log, runs, prev_out >>

InitConcurrent ==
    /\ CallerIdle(IdlePlan)
    /\ NEXT_ID = NEXT_ID_INIT
    /\ ThreadsIdle
    /\ CtxFresh({}, None)
    /\ CpIdle

Load(t) ==
    /\ t_pc[t] = "idle"
    /\ Len(t_ret[t]) < MaxCalls
    /\ t_reg' = [t_reg EXCEPT ![t] = NEXT_ID]
    /\ t_pc' = [t_pc EXCEPT ![t] = "loaded"]
    /\ UNCHANGED << NEXT_ID, t_ret, callervars, ctxvars, cpvars >>

Store(t) ==
    /\ t_pc[t] = "loaded"
    /\ NEXT_ID' = get_next_id(t_reg[t])
    /\ t_reg' = [t_reg EXCEPT ![t] = get_next_id(t_reg[t])]
    /\ t_pc' = [t_pc EXCEPT ![t] = "stored"]
    /\ UNCHANGED << t_ret, callervars, ctxvars, cpvars >>

Return(t) ==
    /\ t_pc[t] = "stored"
    /\ \E v \in {t_reg[t], NEXT_ID} : t_ret' = [t_ret EXCEPT ![t] = Append(@, v)]
    /\ t_pc' = [t_pc EXCEPT ![t] = "idle"]
    /\ UNCHANGED << NEXT_ID, t_reg, callervars, ctxvars, cpvars >>

NextConcurrent ==
    \E t \in Threads : Load(t) \/ Store(t) \/ Return(t)

SpecConcurrent == InitConcurrent /\ [][NextConcurrent]_vars

\* ------------------------------------------------------------------------
\* The operations on one UnnestingInfo, applied to contexts and arguments
\* drawn from bounded sets.
OuterCols == {RX, RY}
InnerCols == {SY, SZ}

\* The domain a general decorrelation of R gives a context (lines 97-101).
DomainOf(outer_refs, next_id) ==
    IF outer_refs # {}
    THEN Some(create_domain_node(Number(TableR, 2), outer_refs, next_id))
    ELSE None

\* Contexts of another scope: made by new, then the equivalences of one
\* predicate, then create_replacement_mappings.
Others ==
    UNION {create_replacement_mappings(
             [UnnestingInfo_new(o, DomainOf(o, get_next_id(get_next_id(NEXT_ID_INIT))))
                EXCEPT !.cclasses = add_equivalences_from_expr(p, @)], a)
           : o \in SUBSET OuterCols, p \in Predicates, a \in SUBSET InnerCols}

InitCtx ==
    /\ CallerIdle(IdlePlan)
    /\ NEXT_ID = NEXT_ID_INIT
    /\ ThreadsIdle
    /\ \E o \in SUBSET OuterCols : CtxFresh(o, DomainOf(o, NEXT_ID_INIT))
    /\ CpIdle

\* add_equivalences_from_expr(predicate, &mut info.cclasses)
AddEquivalences ==
    /\ \E p \in Predicates :
          LET r == [ctx EXCEPT !.cclasses = add_equivalences_from_expr(p, @)]
          IN /\ ctx' = r
             /\ last' = Call("add_equivalences", ctx, ctx, ctx, {}, r)
    /\ UNCHANGED << NEXT_ID, threadvars, callervars, cpvars >>

\* info.create_replacement_mappings(available_columns)
CreateReplacementMappings ==
    /\ \E a \in SUBSET InnerCols : \E r \in create_replacement_mappings(ctx, a) :
          /\ ctx' = r
          /\ last' = Call("create_replacement_mappings", ctx, ctx, ctx, a, r)
    /\ UNCHANGED << NEXT_ID, threadvars, callervars, cpvars >>

\* merge_unnesting_info(ctx, other)
MergeLeft ==
    /\ \E other \in Others :
          LET r == merge_unnesting_info(ctx, other)
          IN /\ ctx' = r
             /\ last' = Call("merge_unnesting_info",
                             IF ctx.outer_refs # {} THEN ctx ELSE other,
                             ctx, other, {}, r)
    /\ UNCHANGED << NEXT_ID, threadvars, callervars, cpvars >>

\* merge_unnesting_info(other, ctx)
MergeRight ==
    /\ \E other \in Others :
          LET r == merge_unnesting_info(other, ctx)
          IN /\ ctx' = r
             /\ last' = Call("merge_unnesting_info",
                             IF other.outer_refs # {} THEN other ELSE ctx,
                             other, ctx, {}, r)
    /\ UNCHANGED << NEXT_ID, threadvars, callervars, cpvars >>

NextCtx ==
    \/ AddEquivalences
    \/ CreateReplacementMappings
    \/ MergeLeft
    \/ MergeRight

SpecCtx == InitCtx /\ [][NextCtx]_vars

\* ------------------------------------------------------------------------
\* The control plane of bauplan/dag_faas: run_cp (cp.rs), the sample DAG
\* (dag.rs) and the worker's run_task (worker.rs).
DagNode(id, code) == [id |-> id, code |-> code]

\* Nodes by NodeIndex, in the order of add_node; edges as (source, target).
build_sample_dag ==
    [nodes |-> (0 :> DagNode("transactions", "source"))
               @@ (1 :> DagNode("euro_selection", "filter_country"))
               @@ (2 :> DagNode("usd_by_country", "groupby_sum")),
     edges |-> {<<0, 1>>, <<1, 2>>}]

Position(order, x) == CHOOSE k \in DOMAIN order : order[k] = x

\* The orders toposort can return: every node once, each edge forward.
toposort(dag) ==
    {o \in Orders(DOMAIN dag.nodes) :
        \A e \in dag.edges : Position(o, e[1]) < Position(o, e[2])}

\* neighbors_directed(node_idx, Incoming)
Incoming(dag, node_idx) == {e[1] : e \in {d \in dag.edges : d[2] = node_idx}}

\* Vec<u8>::default()
EmptyBytes == << >>

\* parent_outputs with every entry the empty default.
parent_outputs_default(parents, node_results) ==
    [k \in DOMAIN parents |-> EmptyBytes]

\* node_results.get(&parent).cloned().unwrap_or_default(), over the parents in
\* the order the iterator gives them.
parent_outputs(parents, node_results) ==
    [k \in DOMAIN parents |->
        IF parents[k] \in DOMAIN node_results THEN node_results[parents[k]]
        ELSE EmptyBytes]

\* worker_addrs[i % worker_addrs.len()], i from 0.
worker_addr(worker_addrs, i) == worker_addrs[(i % Len(worker_addrs)) + 1]

TaskRequest(to, task_id, code, input_batches) ==
    [msg |-> "TaskRequest", to |-> to, task_id |-> task_id, code |-> code,
     input_batches |-> input_batches]

TaskResult(task_id, code, output_batch) ==
    [msg |-> "TaskResult", task_id |-> task_id, log |-> << "Worker finished", code >>,
     output_batch |-> output_batch]

\* The bytes run_task returns for a request: the batch the code computes from
\* its inputs, serialized; written as the term that names the computation.
output_bytes(code, input_batches) ==
    IF code = "source" THEN << "batch", code >>
    ELSE << "batch", code, input_batches[1] >>

\* run_task panics on an unknown code, on a missing input and on bytes that
\* are no Arrow stream.
run_task_ok(req) ==
    /\ \A k \in DOMAIN req.input_batches : req.input_batches[k] # EmptyBytes
    /\ \/ req.code = "source"
       \/ /\ req.code \in {"filter_country", "groupby_sum"}
          /\ Len(req.input_batches) >= 1

WorkerAddrs == {"http://127.0.0.1:50051", "http://127.0.0.1:50052"}
MaxWorkers == 2      \* length of worker_addrs

RECURSIVE SeqsUpTo(_, _)
SeqsUpTo(S, n) ==
    IF n = 0 THEN {<< >>}
    ELSE LET shorter == SeqsUpTo(S, n - 1)
         IN shorter \cup {Append(q, x) : q \in shorter, x \in S}

InitCp ==
    /\ CallerIdle(IdlePlan)
    /\ NEXT_ID = NEXT_ID_INIT
    /\ ThreadsIdle
    /\ CtxFresh({}, None)
    /\ \E w \in SeqsUpTo(WorkerAddrs, MaxWorkers) : cp = CpState(w)
    /\ net = None
    /\ dispatched = << >>

othervars == << NEXT_ID, threadvars, callervars, ctxvars >>

\* let (dag, _) = build_sample_dag(); let topo = toposort(&dag, None).expect(..);
\* let mut node_results = HashMap::new();
CpStart ==
    /\ cp.pc = "init"
    /\ \E o \in toposort(build_sample_dag) :
          cp' = [cp EXCEPT !.pc = "loop", !.topo = o, !.i = 0]
    /\ UNCHANGED << net, dispatched, othervars >>

\* Lines 16-32 up to the await of run_task: the address, the parents' outputs,
\* the connection, the request sent.  With no worker address i % 0 panics.
Dispatch ==
    /\ cp.pc = "loop"
    /\ cp.i < Len(cp.topo)
    /\ IF Len(cp.worker_addrs) = 0
       THEN /\ cp' = [cp EXCEPT !.pc = "panicked"]
            /\ UNCHANGED << net, dispatched >>
       ELSE LET dag == build_sample_dag
                node_idx == cp.topo[cp.i + 1]
                node == dag.nodes[node_idx]
                addr == worker_addr(cp.worker_addrs, cp.i)
            IN \E parents \in Orders(Incoming(dag, node_idx)) :
                  LET inputs == parent_outputs(parents, cp.node_results)
                  IN /\ net' = Some(TaskRequest(addr, node.id, node.code, inputs))
                     /\ dispatched' = Append(dispatched,
                           [node |-> node_idx, i |-> cp.i, worker |-> addr,
                            parents |-> parents, input_batches |-> inputs,
                            node_results |-> cp.node_results])
                     /\ cp' = [cp EXCEPT !.pc = "awaiting"]
    /\ UNCHANGED othervars

\* WorkerClient::connect(..).await.unwrap() on a worker that cannot be reached.
ConnectFails ==
    /\ cp.pc = "loop"
    /\ cp.i < Len(cp.topo)
    /\ Len(cp.worker_addrs) > 0
    /\ cp' = [cp EXCEPT !.pc = "panicked"]
    /\ UNCHANGED << net, dispatched, othervars >>

\* The worker's run_task: the request is taken and the result is sent back.
RunTask ==
    /\ IsSome(net)
    /\ Unwrap(net).msg = "TaskRequest"
    /\ LET req == Unwrap(net)
       IN net' = IF run_task_ok(req)
                 THEN Some(TaskResult(req.task_id, req.code,
                                      output_bytes(req.code, req.input_batches)))
                 ELSE Some([msg |-> "Status", task_id |-> req.task_id])
    /\ UNCHANGED << cp, dispatched, othervars >>

\* client.run_task(req).await.unwrap() on an error: the call fails in transit
\* or the worker answers with a Status.
RpcFails ==
    /\ cp.pc = "awaiting"
    /\ IsSome(net)
    /\ net' = None
    /\ cp' = [cp EXCEPT !.pc = "panicked"]
    /\ UNCHANGED << dispatched, othervars >>

\* let resp = ..into_inner(); node_results.insert(*node_idx, resp.output_batch);
Receive ==
    /\ cp.pc = "awaiting"
    /\ IsSome(net)
    /\ Unwrap(net).msg = "TaskResult"
    /\ cp' = [cp EXCEPT
                !.node_results = MapInsert(@, cp.topo[cp.i + 1], Unwrap(net).output_batch),
                !.i = @ + 1,
                !.pc = "loop"]
    /\ net' = None
    /\ UNCHANGED << dispatched, othervars >>

\* Lines 38-55: the loop is over, the final batch is printed.
CpFinish ==
    /\ cp.pc = "loop"
    /\ cp.i = Len(cp.topo)
    /\ cp' = [cp EXCEPT !.pc = "done"]
    /\ UNCHANGED << net, dispatched, othervars >>

NextCp ==
    \/ CpStart
    \/ Dispatch
    \/ ConnectFails
    \/ RunTask
    \/ RpcFails
    \/ Receive
    \/ CpFinish

SpecCp == InitCp /\ [][NextCp]_vars

\* ------------------------------------------------------------------------
\* Vocabulary of the properties.
Done == pc = "done"
Output == Unwrap(root_node)
Joins(node) == {n \in NodeSet(node) : n.kind = "Join"}

\* The columns a node introduces (a Table its columns, a Map its computed
\* columns, a GroupBy its keys and aggregate outputs).
Introduces(n) ==
    CASE n.kind = "Table" -> {Column(n.name, n.columns[i]) : i \in DOMAIN n.columns}
      [] n.kind = "Map" -> DOMAIN n.mappings
      [] n.kind = "GroupBy" -> Range(n.keys) \cup DOMAIN n.aggregates
      [] OTHER -> {}
SuppliedBySubtree(n) == UNION {Introduces(m) : m \in NodeSet(n)}

\* Every reference of the input is supplied below the node or, on the right
\* of a dependent join, by that join's left input.
RECURSIVE InScope(_, _)
InScope(node, outer) ==
    CASE node.kind = "Table" -> TRUE
      [] node.kind = "Join" ->
            /\ get_accessed_columns(node) \subseteq
                 get_node_produced_columns(node.left)
                 \cup get_node_produced_columns(node.right) \cup outer
            /\ InScope(node.left, outer)
            /\ InScope(node.right,
                       IF node.is_dependent
                       THEN outer \cup get_node_produced_columns(node.left)
                       ELSE outer)
      [] OTHER ->
            /\ get_accessed_columns(node) \subseteq
                 get_node_produced_columns(node.input) \cup outer
            /\ InScope(node.input, outer)

\* A join is marked dependent exactly when its right input has a free
\* variable that its left input produces.
CorrectlyMarked(node) ==
    \A j \in Joins(node) :
        j.is_dependent <=>
          (get_node_free_variables(j.right) \cap get_node_produced_columns(j.left) # {})

WellFormed(node) ==
    /\ UniqueIds(node)
    /\ InScope(node, {})
    /\ CorrectlyMarked(node)
    /\ \A j \in Joins(node) : j.accessing = {}

\* C1: for every well-formed input plan, every Join of the tree unnest_query
\* returns has is_dependent = FALSE.
C1_NoResidualDependence ==
    (Done /\ WellFormed(plan)) => \A j \in Joins(Output) : ~j.is_dependent

\* C2: in the returned tree every column a node references in its own
\* expressions is produced by some node of that node's subtree.
C2_ColumnSupply ==
    (Done /\ WellFormed(plan)) =>
        \A n \in NodeSet(Output) : get_accessed_columns(n) \subseteq SuppliedBySubtree(n)

\* C3: if the ids of the input plan are pairwise distinct, so are the ids of
\* the returned tree.
C3_UniqueOutputIds ==
    (Done /\ UniqueIds(plan)) => UniqueIds(Output)

NoDependentJoin(node) == \A j \in Joins(node) : ~j.is_dependent
Kinds(node) == {n.kind : n \in NodeSet(node)}

\* C4: on a plan in which no Join is dependent, unnest_query returns a tree
\* identical to the input.
C4_IndependentIdentity ==
    (Done /\ NoDependentJoin(plan)) => Output = plan

C4_Witness ==
    /\ Done
    /\ NoDependentJoin(plan)
    /\ {"Join", "Select", "GroupBy", "Table"} \subseteq Kinds(plan)
    /\ \E n \in NodeSet(plan) : n.kind = "Select" /\ n.predicate.k = "GreaterThan"
    /\ Output = plan

\* The substitutes the representation map of an event gives the outer
\* references of its scope.
Substitutes(info) == {info.repr[c] : c \in info.outer_refs \cap DOMAIN info.repr}

Resolving(e) == e.op \in {"Select", "GroupBy", "Map"} \/ e.path = "general"
ClassOf(cc, c) == IF c \in DOMAIN cc THEN cc[c] ELSE {}

\* C6: if the scope has A = B and B = C for an outer reference A and one of
\* A, B, C is available, A is resolved to one of them that is available.
C6_TransitiveResolution ==
    WellFormed(plan) =>
    \A i \in DOMAIN log :
        Resolving(log[i]) =>
            LET e == log[i]
                cc == e.info0.cclasses
            IN \A A \in e.info0.outer_refs \ DOMAIN e.info0.repr :
               \A B \in ClassOf(cc, A) \ {A} :
               \A C \in ClassOf(cc, B) \ {A, B} :
                   ({A, B, C} \cap e.availR # {}) =>
                       /\ A \in DOMAIN e.info1.repr
                       /\ e.info1.repr[A] \in {A, B, C} \cap e.availR

\* The nodes the accessing set of a join names.
Named(join) == {n \in NodeSet(join) : n.id \in join.accessing}

\* C7: a dependent Join whose accessing set is non-empty and names only
\* Selects gets the old condition AND-ed with each of their predicates, is
\* marked independent with accessing emptied, and no node is synthesized; if
\* a named node is no Select the general path is taken and the condition is
\* only rewritten through the representation map.
C7_SimpleUnnesting ==
    WellFormed(plan) =>
    \A i \in DOMAIN log :
        (log[i].op = "Join" /\ log[i].node0.is_dependent
                            /\ log[i].node0.accessing # {}) =>
            LET e == log[i]
                named == Named(e.node0)
            IN IF \A n \in named : n.kind = "Select"
               THEN /\ e.path = "simple"
                    /\ e.node1.condition \in
                         {AndFold(e.node0.condition,
                                  [n \in DOMAIN o |-> o[n].predicate]) :
                            o \in Orders(named)}
                    /\ ~e.node1.is_dependent
                    /\ e.node1.accessing = {}
                    /\ Ids(e.node1) = Ids(e.node0)
               ELSE /\ e.path = "general"
                    /\ e.node1.condition = rewrite_expr(e.node0.condition, e.info1.repr)

RECURSIVE Conjuncts(_)
Conjuncts(expr) ==
    IF expr.k = "And" THEN Conjuncts(expr.l) \cup Conjuncts(expr.r) ELSE {expr}

\* Some visit rewrote `before` into `after`.
Rewritten(before, after) ==
    \E j \in DOMAIN log : log[j].node0 = before /\ log[j].node1 = after

\* C8: general decorrelation with outerRefs non-empty puts a new independent
\* Join on the right, of the domain Map (over a copy of left, re-projecting
\* exactly outerRefs) and the rewritten original right, under the conjunction
\* of outerCol = repr[outerCol] over the resolved outer references; with
\* outerRefs empty no domain Map and no domain Join is made.
C8_GeneralDecorrelation ==
    \A i \in DOMAIN log :
        log[i].path = "general" =>
            LET e == log[i]
                n1 == e.node1
                repr == e.info1.repr
                outerRefs == get_node_produced_columns(n1.left)
                             \cap get_node_free_variables(e.node0.right)
            IN /\ ~n1.is_dependent
               /\ n1.accessing = {}
               /\ IF outerRefs # {}
                  THEN /\ n1.right.kind = "Join"
                       /\ ~n1.right.is_dependent
                       /\ n1.right.accessing = {}
                       /\ n1.right.left.kind = "Map"
                       /\ n1.right.left.input = n1.left
                       /\ n1.right.left.mappings = [c \in outerRefs |-> ColumnRef(c)]
                       /\ Rewritten(e.node0.right, n1.right.right)
                       /\ Conjuncts(n1.right.condition) \ {Constant("true")} =
                            {Equal(ColumnRef(c), ColumnRef(repr[c])) :
                               c \in outerRefs \cap DOMAIN repr}
                  ELSE /\ Rewritten(e.node0.right, n1.right)
                       /\ IsNone(e.info1.domain)
                       /\ Ids(n1) = Ids(e.node0)

C8_Witness ==
    /\ Done
    /\ \E i \in DOMAIN log :
          /\ log[i].path = "general"
          /\ log[i].info1.outer_refs # {}
          /\ Substitutes(log[i].info1) # {}
          /\ log[i].node1.right.kind = "Join"
          /\ log[i].node1.right.left.kind = "Map"

ReferencedIn(node) == UNION {get_accessed_columns(n) : n \in NodeSet(node)}

\* C9: when an outer reference of a decorrelated join has no entry in the
\* representation map (and the rewritten right input still references it),
\* the rewrite reports a failure and returns no tree.
C9_UnresolvedReported ==
    (/\ WellFormed(plan)
     /\ pc = "done"
     /\ \E i \in DOMAIN log :
           /\ log[i].path = "general"
           /\ \E c \in log[i].info1.outer_refs \ DOMAIN log[i].info1.repr :
                 c \in ReferencedIn(log[i].node1.right.right))
    => IsNone(root_node)

\* C10: on a plan with two nodes of the same id, index construction reports
\* an error: no index is built and no later step runs.
C10_DuplicateIdsRejected ==
    ~UniqueIds(plan) => pc = "start"

\* The ids the threads' calls of get_next_id returned, one entry per call.
Returned == {<<t, i>> : t \in Threads, i \in 1..MaxCalls}
Made == {c \in Returned : c[2] <= Len(t_ret[c[1]])}

\* C11: under every interleaving, two calls of get_next_id return different
\* ids, and once n calls have completed the counter has advanced by exactly n.
C11_AtomicIds ==
    /\ \A c, d \in Made : c # d => t_ret[c[1]][c[2]] # t_ret[d[1]][d[2]]
    /\ (\A t \in Threads : t_pc[t] = "idle") =>
          NEXT_ID = NEXT_ID_INIT + Cardinality(Made)

\* C12: two invocations of unnest_query on equal plans return equal trees
\* (ids of synthesized nodes, substitutes chosen and order of the conjoined
\* predicates included).
C12_Deterministic ==
    (Done /\ IsSome(prev_out)) => root_node = prev_out

\* The joins the index holds after apply_dependencies, the root cell included.
IndexedJoins ==
    {tree.node_map[i].node : i \in {j \in DOMAIN tree.node_map :
                                      tree.node_map[j].node.kind = "Join"}}

\* C13: after identify_dependent_joins and apply_dependencies, every id in
\* the accessing set of a dependent Join names a node of the subtree of its
\* right child (so never the join itself).
C13_AccessingInRight ==
    (pc = "applied" /\ WellFormed(plan)) =>
        \A j \in IndexedJoins :
            j.is_dependent => j.accessing \subseteq Ids(j.right)

\* One node before and after apply_dependencies; recorded: the accessing ids
\* of the pairs that have the node as LCA.
NodeFrame(before, after, recorded) ==
    IF before.kind = "Join"
    THEN /\ after = [before EXCEPT !.accessing = after.accessing]
         /\ before.accessing \subseteq after.accessing
         /\ (after.accessing \ before.accessing) \subseteq recorded
         /\ ~before.is_dependent => after.accessing = before.accessing
    ELSE after = before

RecordedFor(id) == {r[2] : r \in {q \in relations : q[1] = id}}

\* C14: apply_dependencies changes no is_dependent flag, nothing on a node
\* that is no Join and nothing on a Join that is not dependent; on a dependent
\* Join it only adds ids recorded for that join as LCA and removes none.
C14_ApplyFrame ==
    [][ApplyDependencies =>
         /\ DOMAIN tree'.node_map = DOMAIN tree.node_map
         /\ \A i \in DOMAIN tree.node_map :
               NodeFrame(tree.node_map[i].node, tree'.node_map[i].node, RecordedFor(i))
         /\ NodeFrame(tree.root, tree'.root, RecordedFor(tree.root.id))]_vars

C14_Witness ==
    /\ pc = "applied"
    /\ plan.kind = "Join"
    /\ plan.is_dependent
    /\ plan.accessing # {}
    /\ plan.accessing \subseteq tree.root.accessing
    /\ tree.root.accessing \ plan.accessing # {}

\* The first node of the plan, in preorder, that introduces column c.
FirstIntroducer(c) ==
    LET s == Nodes(plan)
        i == CHOOSE n \in DOMAIN s :
                /\ c \in Introduces(s[n])
                /\ \A m \in 1..(n - 1) : c \notin Introduces(s[m])
    IN s[i].id

\* C15: the producer the index records for a column is the first node, in
\* top-down traversal order, that introduces it.
C15_FirstProducer ==
    (pc = "indexed" /\ UniqueIds(plan)) =>
        \A c \in DOMAIN tree.column_providers :
            tree.column_providers[c] = FirstIntroducer(c)

NodeById(id) == CHOOSE n \in NodeSet(plan) : n.id = id
\* The reflexive ancestors of id in the plan.
Ancestors(id) == {n.id : n \in {m \in NodeSet(plan) : id \in Ids(m)}}

\* C16: on an indexed tree with unique ids find_lca(a, b) is a reflexive
\* ancestor of both with no proper descendant that is one too, is symmetric,
\* gives a for (a, a), and is None only when a and b share no ancestor.
C16_Lca ==
    (pc = "indexed" /\ UniqueIds(plan)) =>
        \A a, b \in Ids(plan) :
            LET l == find_lca(tree, a, b)
                common == Ancestors(a) \cap Ancestors(b)
            IN /\ IsNone(l) => common = {}
               /\ IsSome(l) =>
                     /\ Unwrap(l) \in common
                     /\ \A d \in common : d \in Ids(NodeById(Unwrap(l))) => d = Unwrap(l)
               /\ l = find_lca(tree, b, a)
               /\ find_lca(tree, a, a) = Some(a)

C16_Witness ==
    /\ pc = "indexed"
    /\ UniqueIds(plan)
    /\ \E a, b \in Ids(plan) :
          /\ IsSome(find_lca(tree, a, b))
          /\ Unwrap(find_lca(tree, a, b)) \notin {a, b, plan.id}

\* C17: is_in_left_subtree(id, joinId) holds exactly when joinId names a Join
\* of the index and id is its left child or a descendant of it;
\* is_descendant_of(id, id) holds for every id.
C17_LeftSubtree ==
    (pc = "indexed" /\ UniqueIds(plan)) =>
        \A id, joinId \in Ids(plan) \cup {0} :
            /\ is_in_left_subtree(tree, id, joinId) <=>
                  /\ joinId \in Ids(plan)
                  /\ NodeById(joinId).kind = "Join"
                  /\ id \in Ids(NodeById(joinId).left)
            /\ is_descendant_of(tree, id, id)

C17_Witness ==
    /\ pc = "indexed"
    /\ UniqueIds(plan)
    /\ \E id, joinId \in Ids(plan) :
          /\ is_in_left_subtree(tree, id, joinId)
          /\ id # NodeById(joinId).left.id
          /\ \E other \in Ids(NodeById(joinId).right) :
                ~is_in_left_subtree(tree, other, joinId)

\* C18: when process_node visits a dependent Join J, every accessing id
\* recorded for J by identify_dependent_joins is in J's accessing set.
C18_AnnotationReachesTree ==
    (Done /\ WellFormed(plan)) =>
        \A i \in DOMAIN log :
            (log[i].op = "Join" /\ log[i].node0.is_dependent) =>
                RecordedFor(log[i].id) \subseteq log[i].node0.accessing

\* C19: an entry of the representation map for an outer reference of a
\* context is left as it is by every operation on that context:
\* create_replacement_mappings skips the column and merge_unnesting_info keeps
\* the entry of the base side.
C19_ReprStable ==
    \A c \in last.base.outer_refs \cap DOMAIN last.base.repr :
        /\ c \in DOMAIN last.result.repr
        /\ last.result.repr[c] = last.base.repr[c]

C19_Witness ==
    /\ last.op = "create_replacement_mappings"
    /\ \E c \in last.base.outer_refs \cap DOMAIN last.base.repr :
          /\ (ClassOf(last.base.cclasses, c) \cap last.avail) \ {last.base.repr[c]} # {}
          /\ last.result.repr[c] = last.base.repr[c]

AllCols == OuterCols \cup InnerCols

\* C20: merge_unnesting_info(left, right) has the outerRefs and the domain of
\* left when left.outerRefs is non-empty and of right otherwise; when both
\* are non-empty each class is the union of the two sides' classes and the
\* representation map is left's plus right's entries for the columns left has
\* none for.
C20_Merge ==
    last.op = "merge_unnesting_info" =>
        LET l == last.left
            r == last.right
            res == last.result
            side == IF l.outer_refs # {} THEN l ELSE r
        IN /\ res.outer_refs = side.outer_refs
           /\ res.domain = side.domain
           /\ (l.outer_refs # {} /\ r.outer_refs # {}) =>
                 /\ \A c \in AllCols :
                       ClassOf(res.cclasses, c) =
                         ClassOf(l.cclasses, c) \cup ClassOf(r.cclasses, c)
                 /\ DOMAIN res.repr = (DOMAIN l.repr) \cup (DOMAIN r.repr)
                 /\ \A c \in DOMAIN res.repr :
                       res.repr[c] = IF c \in DOMAIN l.repr THEN l.repr[c] ELSE r.repr[c]

C20_Witness ==
    /\ last.op = "merge_unnesting_info"
    /\ last.left.outer_refs # {}
    /\ last.right.outer_refs # {}
    /\ last.left.domain # last.right.domain
    /\ (DOMAIN last.right.repr) \ (DOMAIN last.left.repr) # {}
    /\ \E c \in (DOMAIN last.left.repr) \cap (DOMAIN last.right.repr) :
          last.left.repr[c] # last.right.repr[c]
    /\ last.left.cclasses # last.right.cclasses

\* C21: after process_node on a Table, availableColumns is exactly the set of
\* columns the Table produces, whatever it held before, and the context
\* returned is the enclosing one, or a new empty one when there is none.
C21_TableResetsAvailable ==
    \A i \in DOMAIN log :
        log[i].op = "Table" =>
            /\ log[i].avail1 = get_node_produced_columns(log[i].node0)
            /\ log[i].info1 = log[i].info0
            /\ ~log[i].scoped => log[i].info1 = UnnestingInfo_new({}, None)

\* The walk current, parent(current), ... ends at a node without a parent
\* within fuel steps.
RECURSIVE WalkReachesRoot(_, _, _)
WalkReachesRoot(pm, current, fuel) ==
    IF current \notin DOMAIN pm THEN TRUE
    ELSE IF fuel = 0 THEN FALSE
    ELSE WalkReachesRoot(pm, pm[current], fuel - 1)

\* Every parent-chain walk of the index ends within as many steps as the
\* index has nodes.
WalksFinite ==
    \A id \in DOMAIN tree.node_map :
        WalkReachesRoot(tree.parent_map, id, Cardinality(DOMAIN tree.node_map))

\* process_node visited only nodes of the tree it was given, each at most once.
VisitsStructural ==
    /\ \A i \in DOMAIN log : log[i].node0 \in NodeSet(tree.root)
    /\ \A i, j \in DOMAIN log : i # j => log[i].id # log[j].id
    /\ Len(log) <= Size(tree.root)

\* C22: on a plan with unique ids every parent-chain walk of the index is
\* finite, process_node recurses only into the nodes of the tree, and every
\* invocation of unnest_query returns.
C22_Terminates ==
    /\ [](UniqueIds(plan) => (WalksFinite /\ VisitsStructural))
    /\ ((pc = "start" /\ UniqueIds(plan)) ~> (pc = "done"))

C22_Witness ==
    /\ Done
    /\ UniqueIds(plan)
    /\ runs = MaxRuns
    /\ Len(log) = Size(plan)
    /\ \E id \in DOMAIN tree.parent_map :
          /\ tree.parent_map[id] \in DOMAIN tree.parent_map
          /\ tree.parent_map[tree.parent_map[id]] \in DOMAIN tree.parent_map

\* Node m of the output stands for node n of the input: same id, same kind.
StandsFor(m, n) == m.id = n.id /\ m.kind = n.kind

\* C23: every node of the input plan is in the returned tree with its id and
\* its kind, and every input node below it is still below it.
C23_InputNodesKept ==
    Done =>
        \A n \in NodeSet(plan) :
            \E m \in NodeSet(Output) :
                /\ StandsFor(m, n)
                /\ \A d \in NodeSet(n) : \E e \in NodeSet(m) : StandsFor(e, d)

C23_Witness ==
    /\ Done
    /\ UniqueIds(plan)
    /\ Size(Output) > Size(plan)
    /\ Output # plan
    /\ \E i \in DOMAIN log :
          /\ log[i].path = "general"
          /\ log[i].node0.right.kind = "Select"
          /\ log[i].node1.right.kind = "Join"
          /\ log[i].node1.right.right.predicate # log[i].node0.right.predicate

Symmetric(cc) ==
    \A a \in DOMAIN cc : \A b \in cc[a] : b \in DOMAIN cc /\ a \in cc[b]

SymmetricInfo(info) ==
    /\ Symmetric(info.cclasses)
    /\ IsSome(info.parent) => Symmetric(Unwrap(info.parent).cclasses)

\* The pairs of columns the Equal(ColumnRef, ColumnRef) conjuncts of expr equate.
EqualPairs(expr) ==
    {<<e.l.c, e.r.c>> :
        e \in {x \in Conjuncts(expr) :
                 x.k = "Equal" /\ x.l.k = "ColumnRef" /\ x.r.k = "ColumnRef"}}

ClassesOfPairs(ps) ==
    [c \in {q[1] : q \in ps} \cup {q[2] : q \in ps} |->
        {q[2] : q \in {w \in ps : w[1] = c}} \cup {q[1] : q \in {w \in ps : w[2] = c}}]

\* C24: the equivalence classes of every context of a rewrite are symmetric;
\* add_equivalences_from_expr records exactly the two directions of each
\* Equal(ColumnRef, ColumnRef) conjunct and nothing for other expressions.
C24_SymmetricClasses ==
    /\ \A i \in DOMAIN log : SymmetricInfo(log[i].info0) /\ SymmetricInfo(log[i].info1)
    /\ IsSome(ret_info) => SymmetricInfo(Unwrap(ret_info))
    /\ \A n \in {m \in NodeSet(plan) : m.kind \in {"Select", "Join"}} :
          LET expr == IF n.kind = "Select" THEN n.predicate ELSE n.condition
          IN add_equivalences_from_expr(expr, EmptyMap) = ClassesOfPairs(EqualPairs(expr))

C24_Witness ==
    /\ Done
    /\ \E i \in DOMAIN log :
          /\ log[i].scoped
          /\ \E a \in DOMAIN log[i].info1.cclasses :
                /\ Cardinality(log[i].info1.cclasses[a]) >= 2
                /\ \A b \in log[i].info1.cclasses[a] : a \in log[i].info1.cclasses[b]
    /\ \E n \in NodeSet(plan) :
          n.kind = "Select" /\ EqualPairs(n.predicate) = {}

\* C25: run_cp sends the nodes one at a time in a topological order; the
\* request of a node is sent after the result of each of its parents is
\* stored, with those results (never the empty default) as input_batches; the
\* i-th node of the order goes to worker i mod the number of workers; a node
\* is sent only after the response for the previous one has arrived.
C25_Dispatch ==
    LET dag == build_sample_dag
    IN /\ \A e \in dag.edges :
             cp.topo # << >> => Position(cp.topo, e[1]) < Position(cp.topo, e[2])
       /\ Len(dispatched) <= Len(cp.topo)
       /\ Len(dispatched) <= Cardinality(DOMAIN cp.node_results) + 1
       /\ Len(dispatched) > Cardinality(DOMAIN cp.node_results) =>
             cp.pc \in {"awaiting", "panicked"}
       /\ IsSome(net) => cp.pc = "awaiting"
       /\ \A k \in DOMAIN dispatched :
             LET d == dispatched[k]
             IN /\ d.node = cp.topo[k]
                /\ d.i = k - 1
                /\ d.worker = cp.worker_addrs[((k - 1) % Len(cp.worker_addrs)) + 1]
                /\ Range(d.parents) = Incoming(dag, d.node)
                /\ Len(d.input_batches) = Cardinality(Incoming(dag, d.node))
                /\ \A j \in DOMAIN d.parents :
                      LET parent == d.parents[j]
                          sent == dispatched[Position(cp.topo, parent)]
                      IN /\ Position(cp.topo, parent) < k
                         /\ parent \in DOMAIN d.node_results
                         /\ d.input_batches[j] = d.node_results[parent]
                         /\ d.input_batches[j] # EmptyBytes
                         /\ d.input_batches[j] =
                              output_bytes(dag.nodes[parent].code, sent.input_batches)
                /\ \A m \in 1..(k - 1) : cp.topo[m] \in DOMAIN d.node_results

C25_Witness ==
    /\ cp.pc = "done"
    /\ Len(dispatched) = Cardinality(DOMAIN build_sample_dag.nodes)
    /\ Len(cp.worker_addrs) = Cardinality(WorkerAddrs)
    /\ cp.worker_addrs[1] # cp.worker_addrs[Len(cp.worker_addrs)]
    /\ dispatched[1].worker # dispatched[Len(cp.worker_addrs)].worker
    /\ dispatched[Len(dispatched)].input_batches # << >>

====
